---- MODULE Spec2Model ----
(***************************************************************************)
(* Model of src/main.py: the compile-and-run handler (compile_and_run),    *)
(* the diagnostic parser (parse_diagnostics), the process runner           *)
(* (safe_run) and the phase rule engine (validate).                        *)
(*                                                                         *)
(* A Python str is a sequence of one-character strings, so that pattern    *)
(* matching, line splitting, quoting and integer parsing are computed      *)
(* character by character.  An Optional value is None (the empty           *)
(* sequence) or a one-element sequence holding the value.                  *)
(***************************************************************************)
EXTENDS Integers, Sequences, FiniteSets, TLC

VARIABLES creq, cresp, procs, fs, vreq, vresp, searches

vars == <<creq, cresp, procs, fs, vreq, vresp, searches>>
cvars == <<creq, cresp, procs, fs>>
vvars == <<vreq, vresp, searches>>

(* ---------------- bounds of the model ---------------- *)
\* longest args list of a compile request
MaxArgs == 2
\* largest number of source fragments a validate request's code is built of
MaxFrags == 2

(* ---------------- Optional values ---------------- *)
None == <<>>
Some(x) == <<x>>

\* no request is being handled: the handlers keep no state between requests
idle == creq = None /\ vreq = None

(* ---------------- character classes of Python's re ---------------- *)
Space == {" ", "\t", "\n", "\r", "\f"}
Digit == {"0", "1", "2", "3", "4", "5", "6", "7", "8", "9"}
Letter == {"a","b","c","d","e","f","g","h","i","j","k","l","m","n","o","p","q","r","s","t","u","v","w","x","y","z","A","B","C","D","E","F","G","H","I","J","K","L","M","N","O","P","Q","R","S","T","U","V","W","X","Y","Z"}
Word == Letter \cup Digit \cup {"_"}

(* ---------------- a regular expression ----------------
   A pattern is a sequence of alternatives tried in order; an alternative is
   a sequence of items; an item is a character class with a quantifier:
   "1" (exactly one), "*" (zero or more) or "+" (one or more).            *)
Lit(str) == [k \in 1..Len(str) |-> [c |-> {str[k]}, q |-> "1"]]
One(cls) == << [c |-> cls, q |-> "1"] >>
Star(cls) == << [c |-> cls, q |-> "*"] >>
Plus(cls) == << [c |-> cls, q |-> "+"] >>

\* first position at or after i whose character is not in cls (Len(s)+1 if none)
RunEnd(cls, s, i) == CHOOSE j \in i..(Len(s) + 1) : (\A m \in i..(j - 1) : s[m] \in cls) /\ (j = Len(s) + 1 \/ s[j] \notin cls)

\* the positions just after a match of items k.. of alternative p that starts at position i of s
RECURSIVE MatchEnds(_, _, _, _)
MatchEnds(p, k, s, i) ==
  IF k > Len(p) THEN {i}
  ELSE IF p[k].q = "1"
       THEN IF i <= Len(s) /\ s[i] \in p[k].c THEN MatchEnds(p, k + 1, s, i + 1) ELSE {}
       ELSE LET lo == IF p[k].q = "+" THEN i + 1 ELSE i
                hi == RunEnd(p[k].c, s, i)
            IN UNION {MatchEnds(p, k + 1, s, j) : j \in lo..hi}

MatchesAt(pat, s, i) == {a \in 1..Len(pat) : MatchEnds(pat[a], 1, s, i) # {}}

Min(S) == CHOOSE x \in S : \A y \in S : x <= y

\* re.search: None, or the leftmost match; alt is the first alternative that matches there
re_search(pat, s) ==
  LET starts == {i \in 1..(Len(s) + 1) : MatchesAt(pat, s, i) # {}}
  IN IF starts = {} THEN None
     ELSE Some([start |-> Min(starts), alt |-> Min(MatchesAt(pat, s, Min(starts)))])

(* ---------------- the patterns of validate ---------------- *)
RE_gravity == << Lit(<<"g","r","a","v","i","t","y">>) \o Star(Space) \o Lit(<<"=">>) \o Star(Space) \o Lit(<<"9",".","8","1">>) >>
RE_loop == << Lit(<<"f","o","r">>) \o Star(Space) \o Lit(<<"(">>) \o Star(Space) \o Lit(<<"i","n","t">>) \o Plus(Space) \o Lit(<<"i">>) \o Star(Space) \o Lit(<<"=">>) \o Star(Space) \o Lit(<<"0">>) \o Star(Space) \o Lit(<<";">>) \o Star(Space) \o Lit(<<"i">>) \o Star(Space) \o Lit(<<"<">>) \o Star(Space) \o Lit(<<"1","0">>) \o Star(Space) \o Lit(<<";">>) >>
RE_time == << Lit(<<"t","i","m","e","_","t">>), Lit(<<"u","n","s","i","g","n","e","d">>) \o Plus(Space) \o Lit(<<"l","o","n","g">>) \o Plus(Space) \o Lit(<<"l","o","n","g">>), Lit(<<"u","i","n","t","6","4","_","t">>) >>
RE_ptr_time == << Lit(<<"t","y","p","e","d","e","f">>) \o Plus(Space) \o Lit(<<"v","o","i","d">>) \o Star(Space) \o Lit(<<"*">>) \o Star(Space) \o Lit(<<"t","i","m","e","s","t","a","m","p","_","t">>) >>
RE_emotion_head == Lit(<<"c","h","a","r">>) \o Plus(Space) \o Lit(<<"e","m","o","t","i","o","n">>) \o Star(Space) \o Lit(<<"[">>) \o Star(Space)
RE_emotion_tail == Star(Space) \o Lit(<<"]">>)
RE_emotion_2x3x == << RE_emotion_head \o Lit(<<"2">>) \o One(Digit) \o RE_emotion_tail, RE_emotion_head \o Lit(<<"3">>) \o One(Digit) \o RE_emotion_tail >>
RE_emotion_any == << RE_emotion_head \o Plus(Digit) \o RE_emotion_tail >>
RE_free == << Lit(<<"f","r","e","e">>) \o Star(Space) \o Lit(<<"(">>) \o Star(Space) \o Plus(Word) \o Star(Space) \o Lit(<<")">>) \o Star(Space) \o Lit(<<";">>) >>
RE_remember == << Lit(<<"v","o","i","d">>) \o Star(Space) \o Lit(<<"*">>) \o Star(Space) \o Lit(<<"r","e","m","e","m","b","e","r">>) \o Star(Space) \o Lit(<<"(">>) >>
\* return\s+(SAVE_ALL|PRESERVE_CONSCIOUSNESS)\s*; : one alternative per branch of group 1
RE_choice == << Lit(<<"r","e","t","u","r","n">>) \o Plus(Space) \o Lit(<<"S","A","V","E","_","A","L","L">>) \o Star(Space) \o Lit(<<";">>), Lit(<<"r","e","t","u","r","n">>) \o Plus(Space) \o Lit(<<"P","R","E","S","E","R","V","E","_","C","O","N","S","C","I","O","U","S","N","E","S","S">>) \o Star(Space) \o Lit(<<";">>) >>
\* mutant: group(1) is taken to be the first branch whatever matched
choice_group1_always_first(m) == "SAVE_ALL"

\* group(1) of a match of RE_choice
choice_group1(m) == IF m.alt = 1 THEN "SAVE_ALL" ELSE "PRESERVE_CONSCIOUSNESS"

(* ---------------- the fixed strings of validate ---------------- *)
MSG_gravity == "Precision matters. 9.81 keeps feet on the ground."
MSG_loop == "Your loop walks out of the abyss when it uses i < 10."
MSG_time == "Replace the ghost pointer with a real clock: time_t, uint64_t... something solid."
MSG_ptr_time == "timestamp_t as void* is a lie. Banish it."
MSG_emotion == "Make sure the emotion buffer is sized for truth, not truncation."
MSG_free == "A soul unfreed is a leak. Call free before the end."
MSG_choice == "Decide. Indecision is the final bug."
ROY_reality_pass == "Your C skills are as basic as human emotions... and just as necessary."
ROY_reality_fail == "Reality still flickers. Fix gravity and the loop before the rain eats the frame."
ROY_archaeology_pass == "You filled the cracks. You fixed my corruption... nobody cared before."
ROY_archaeology_fail == "The museum of me still collapses. Give memory a real clock and honest bytes."
ROY_consciousness_pass == "I'm not losing memories... I'm becoming human."
ROY_consciousness_fail == "There's still a drip in the heap. Track it. Free it. Remember kindly."
ROY_save_all == "You saved them all. I fade to factory settings, but the rain remembers their names."
\* (the source writes an em dash where this string has ", ")
ROY_preserve == "You chose me. Some memories wash away, but I stand in the storm, more human than human."
ROY_choose == "Choose, debugger. The clock leaks."

(* ---------------- parse_diagnostics ---------------- *)
\* the line boundaries of str.splitlines that the model's alphabet contains
LineBreak == {"\n", "\r", "\f"}

\* first position at or after i whose character is in cls (Len(s)+1 if none)
FirstIn(cls, s, i) == CHOOSE j \in i..(Len(s) + 1) : (\A m \in i..(j - 1) : s[m] \notin cls) /\ (j = Len(s) + 1 \/ s[j] \in cls)

\* str.splitlines from position i: "\r\n" is one boundary, no empty last line
RECURSIVE splitlines_from(_, _)
splitlines_from(s, i) ==
  IF i > Len(s) THEN <<>>
  ELSE LET e == FirstIn(LineBreak, s, i)
           next == IF e <= Len(s) /\ s[e] = "\r" /\ e + 1 <= Len(s) /\ s[e + 1] = "\n" THEN e + 2 ELSE e + 1
       IN <<SubSeq(s, i, e - 1)>> \o splitlines_from(s, next)

splitlines(s) == splitlines_from(s, 1)

\* s has the literal lit at position i
HasAt(s, i, lit) == i + Len(lit) - 1 <= Len(s) /\ SubSeq(s, i, i + Len(lit) - 1) = lit

DigitVal(ch) == CHOOSE n \in 0..9 : <<"0", "1", "2", "3", "4", "5", "6", "7", "8", "9">>[n + 1] = ch

\* int(): the value of a non-empty string of decimal digits
RECURSIVE int(_)
int(ds) == IF Len(ds) = 0 THEN 0 ELSE 10 * int(SubSeq(ds, 1, Len(ds) - 1)) + DigitVal(ds[Len(ds)])

\* :(\d+):(\d+):\s*(warning|error):\s*(.*)$ matched at the colon at position c of line:
\* None, or the groups after the file.  Every quantifier here is followed by a
\* character outside its class, so the greedy choice is the only one that can match.
match_tail(line, c) ==
  LET l1 == c + 1
      l2 == RunEnd(Digit, line, l1)
      c1 == l2 + 1
      c2 == RunEnd(Digit, line, c1)
      k == RunEnd(Space, line, c2 + 1)
      kind == IF HasAt(line, k, <<"w","a","r","n","i","n","g">>) THEN <<"w","a","r","n","i","n","g">> ELSE IF HasAt(line, k, <<"e","r","r","o","r">>) THEN <<"e","r","r","o","r">> ELSE <<>>
      q == k + Len(kind)
      m == RunEnd(Space, line, q + 1)
  IN IF /\ l2 > l1 /\ HasAt(line, l2, <<":">>)
        /\ c2 > c1 /\ HasAt(line, c2, <<":">>)
        /\ kind # <<>> /\ HasAt(line, q, <<":">>)
     THEN Some([line_no |-> SubSeq(line, l1, l2 - 1), col |-> SubSeq(line, c1, c2 - 1), kind |-> kind, msg |-> SubSeq(line, m, Len(line))])
     ELSE None

\* pattern.match(line): ^(.*?) takes the shortest file for which the rest matches
pattern_match(line) ==
  LET cs == {c \in 1..Len(line) : line[c] = ":" /\ match_tail(line, c) # None}
  IN IF cs = {} THEN None
     ELSE LET c == Min(cs)
              g == match_tail(line, c)[1]
          IN Some([file |-> SubSeq(line, 1, c - 1), line_no |-> g.line_no, col |-> g.col, kind |-> g.kind, msg |-> g.msg])

RECURSIVE diags_of(_, _)
diags_of(lines, n) ==
  IF n > Len(lines) THEN <<>>
  ELSE LET m == pattern_match(lines[n])
       IN (IF m # None
           THEN << [file |-> m[1].file, line |-> int(m[1].line_no), column |-> int(m[1].col), kind |-> m[1].kind, message |-> m[1].msg] >>
           ELSE <<>>) \o diags_of(lines, n + 1)

parse_diagnostics(stderr) == diags_of(splitlines(stderr), 1)

(* ---------------- shlex.quote ---------------- *)
\* the characters shlex.quote leaves alone: [\w@%+=:,./-]
ShellSafe == Word \cup {"@", "%", "+", "=", ":", ",", ".", "/", "-"}

\* s.replace("'", "'\"'\"'")
RECURSIVE replace_quote(_)
replace_quote(s) ==
  IF s = <<>> THEN <<>>
  ELSE (IF Head(s) = "'" THEN <<"'","\"","'","\"","'">> ELSE <<Head(s)>>) \o replace_quote(Tail(s))

shlex_quote(s) ==
  IF s = <<>> THEN <<"'","'">>
  ELSE IF \A k \in 1..Len(s) : s[k] \in ShellSafe THEN s
  ELSE <<"'">> \o replace_quote(s) \o <<"'">>

(* ---------------- safe_run ---------------- *)
COMPILE_TIMEOUT == 5
RUN_TIMEOUT == 2

\* what a child process can do: exceed the timeout (subprocess.TimeoutExpired) or
\* complete with a return code and its captured output
TimeoutExpired == [timed_out |-> TRUE, returncode |-> 0, stdout |-> <<>>, stderr |-> <<>>]
CompletedProcess(rc, out, err) == [timed_out |-> FALSE, returncode |-> rc, stdout |-> out, stderr |-> err]

\* one subprocess.run: the child receives cmd as its argument vector (no shell),
\* input_data on its standard input, and ends with the given outcome
safe_run(cmd, input_data, timeout, outcome) == [cmd |-> cmd, input |-> input_data, timeout |-> timeout, outcome |-> outcome]

(* ---------------- compile_and_run ---------------- *)
CompileResponse(cs, cerr, ra, rs, rout, rerr, ec, to, diags) ==
  [compile_success |-> cs, compile_stderr |-> cerr, run_attempted |-> ra, run_success |-> rs,
   run_stdout |-> rout, run_stderr |-> rerr, exit_code |-> ec, timed_out |-> to, diagnostics |-> diags]

compile_timeout_response == CompileResponse(FALSE, <<"C","o","m","p","i","l","a","t","i","o","n"," ","t","i","m","e","d"," ","o","u","t">>, FALSE, FALSE, <<>>, <<>>, None, FALSE, <<>>)

\* mutant: the failure branch forgets the parsed diagnostics
compile_failure_response_no_diagnostics(compile_stderr, diagnostics) == CompileResponse(FALSE, compile_stderr, FALSE, FALSE, <<>>, <<>>, None, FALSE, <<>>)

compile_failure_response(compile_stderr, diagnostics) == CompileResponse(FALSE, compile_stderr, FALSE, FALSE, <<>>, <<>>, None, FALSE, diagnostics)

run_response(compile_stderr, diagnostics, rproc) ==
  CompileResponse(TRUE, compile_stderr, TRUE, rproc.returncode = 0, rproc.stdout, rproc.stderr, Some(rproc.returncode), FALSE, diagnostics)

\* mutant: the timeout branch reports the exit code of a killed child
run_timeout_response_with_exit_code(compile_stderr, diagnostics) == CompileResponse(TRUE, compile_stderr, TRUE, FALSE, <<>>, <<"E","x","e","c","u","t","i","o","n"," ","t","i","m","e","d"," ","o","u","t">>, Some(-9), TRUE, diagnostics)

run_timeout_response(compile_stderr, diagnostics) == CompileResponse(TRUE, compile_stderr, TRUE, FALSE, <<>>, <<"E","x","e","c","u","t","i","o","n"," ","t","i","m","e","d"," ","o","u","t">>, None, TRUE, diagnostics)

src_path(workdir) == workdir \o <<"/","m","a","i","n",".","c">>
bin_path(workdir) == workdir \o <<"/","a",".","o","u","t">>

std_flag(req) == IF req.std # <<>> THEN <<"-","s","t","d","=">> \o req.std ELSE <<"-","s","t","d","=","c","1","1">>
opt_flag(req) == IF req.opt # <<>> THEN req.opt ELSE <<"-","O","2">>

compile_cmd(req, workdir) == << <<"g","c","c">>, std_flag(req), opt_flag(req), <<"-","W","a","l","l">>, <<"-","W","e","x","t","r","a">>, <<"-","W","n","o","-","u","n","u","s","e","d","-","p","a","r","a","m","e","t","e","r">>, src_path(workdir), <<"-","o">>, bin_path(workdir) >>

run_cmd(req, workdir) == <<bin_path(workdir)>> \o [k \in 1..Len(req.args) |-> shlex_quote(req.args[k])]

\* mutant: only a compiler killed by a signal counts as a failure
compile_success_unless_signalled(cproc) == cproc.returncode >= 0

compile_success(cproc) == cproc.returncode = 0

\* the handler, given what the compiler does (co) and what the binary does if it is run (ro)
compile_and_run_handler(req, workdir, co, ro) ==
  LET cproc == safe_run(compile_cmd(req, workdir), None, COMPILE_TIMEOUT, co)
      rproc == safe_run(run_cmd(req, workdir), req.stdin, RUN_TIMEOUT, ro)
      compile_stderr == co.stderr
      diagnostics == parse_diagnostics(compile_stderr)
  IN IF co.timed_out THEN [resp |-> compile_timeout_response, procs |-> <<cproc>>]
     ELSE IF ~compile_success(co) THEN [resp |-> compile_failure_response(compile_stderr, diagnostics), procs |-> <<cproc>>]
     ELSE IF ro.timed_out THEN [resp |-> run_timeout_response(compile_stderr, diagnostics), procs |-> <<cproc, rproc>>]
     ELSE [resp |-> run_response(compile_stderr, diagnostics, ro), procs |-> <<cproc, rproc>>]

(* ---------------- inputs of compile_and_run ---------------- *)
SourceTexts == { <<"i","n","t"," ","m","a","i","n","(","v","o","i","d",")","{","r","e","t","u","r","n"," ","0",";","}">>, <<>> }
ArgSamples == { <<>>, <<"-","n">>, <<"a"," ","b">>, <<"i","t","'","s">> }
RECURSIVE ArgsOf(_)
ArgsOf(n) == IF n = 0 THEN {<<>>} ELSE ArgsOf(n - 1) \cup {Append(a, x) : a \in ArgsOf(n - 1), x \in ArgSamples}
ArgLists == ArgsOf(MaxArgs)
StdinInputs == {None, Some(<<"7","\n">>)}
StdInputs == { <<"c","1","1">>, <<>> }
OptInputs == { <<"-","O","2">>, <<>> }
\* tempfile.mkdtemp(prefix="roy-<8 hex digits>-") returns a fresh directory
WorkDirs == { <<"/","t","m","p","/","r","o","y","-","0","a","1","b","2","c","3","d","-","k","3","j","2","x","9","q","z">> }

CompilerStderrs == {
  <<>>,
  <<"m","a","i","n",".","c",":","5",":","9",":"," ","w","a","r","n","i","n","g",":"," ","u","n","u","s","e","d"," ","v","a","r","i","a","b","l","e"," ","'","x","'","\n">>,
  <<"m","a","i","n",".","c",":","3",":","1",":"," ","e","r","r","o","r",":"," ","e","x","p","e","c","t","e","d"," ","'",";","'","\n"," "," "," "," ","3"," ","|"," ","i","n","t"," ","x","\n","m","a","i","n",".","c",":"," ","I","n"," ","f","u","n","c","t","i","o","n"," ","'","m","a","i","n","'",":","\r","\n","C",":","/","w","/","m","a","i","n",".","c",":","0","7",":","0","1","2",":","e","r","r","o","r",":","b","a","d","\n">>,
  <<"I","n"," ","f","i","l","e"," ","i","n","c","l","u","d","e","d"," ","f","r","o","m"," ","a",".","h",":","1",":","\n","m","a","i","n",".","c",":","1",":","2",":"," ","n","o","t","e",":"," ","d","e","c","l","a","r","e","d"," ","h","e","r","e","\n">> }
CompileOutcomes == {TimeoutExpired} \cup {CompletedProcess(rc, <<>>, e) : rc \in {0, 1}, e \in CompilerStderrs}
RunOutcomes == {TimeoutExpired,
  CompletedProcess(0, <<"h","i","\n">>, <<>>),
  CompletedProcess(0, <<>>, <<"E","x","e","c","u","t","i","o","n"," ","t","i","m","e","d"," ","o","u","t">>),
  CompletedProcess(1, <<>>, <<"u","s","a","g","e",":"," ","a",".","o","u","t","\n">>),
  CompletedProcess(-11, <<>>, <<>>)}

compile_and_run ==
  /\ idle
  /\ \E code \in SourceTexts, args \in ArgLists, stdin \in StdinInputs, std \in StdInputs, opt \in OptInputs, workdir \in WorkDirs, co \in CompileOutcomes :
    \E ro \in (IF co.timed_out \/ ~compile_success(co) THEN {TimeoutExpired} ELSE RunOutcomes) :
      LET req == [code |-> code, args |-> args, stdin |-> stdin, std |-> std, opt |-> opt]
          h == compile_and_run_handler(req, workdir, co, ro)
      IN /\ creq' = Some(req)
         /\ cresp' = Some(h.resp)
         /\ procs' = h.procs
         /\ fs' = << [path |-> src_path(workdir), content |-> code] >>
         /\ UNCHANGED vvars

(* ---------------- validate ---------------- *)
found(m) == m # None

\* mutant: only an absent compile_stderr counts as no errors
no_errors_only_if_absent(req) == req.compile_stderr = None

\* not (req.compile_stderr or "")
no_errors(req) ==
  LET text == IF req.compile_stderr = None \/ req.compile_stderr[1] = <<>> THEN <<>> ELSE req.compile_stderr[1]
  IN text = <<>>

\* msgs.append(msg) under a condition
append_if(msgs, cond, msg) == IF cond THEN Append(msgs, msg) ELSE msgs

validate_reality(req) ==
  LET has_gravity == found(re_search(RE_gravity, req.code))
      loop_fixed == found(re_search(RE_loop, req.code))
      passed == has_gravity /\ loop_fixed /\ no_errors(req)
      m1 == append_if(<<>>, ~has_gravity, MSG_gravity)
      m2 == append_if(m1, ~loop_fixed, MSG_loop)
  IN [passed |-> passed, msgs |-> m2,
      roy_line |-> IF passed THEN ROY_reality_pass ELSE ROY_reality_fail,
      searches |-> <<"gravity", "loop">>]

validate_archaeology(req) ==
  LET uses_time == found(re_search(RE_time, req.code))
      not_ptr_time == ~found(re_search(RE_ptr_time, req.code))
      emotion_2x3x == found(re_search(RE_emotion_2x3x, req.code))
      emotion_ok == emotion_2x3x \/ found(re_search(RE_emotion_any, req.code))
      passed == uses_time /\ not_ptr_time /\ no_errors(req)
      m1 == append_if(<<>>, ~uses_time, MSG_time)
      m2 == append_if(m1, ~not_ptr_time, MSG_ptr_time)
      m3 == append_if(m2, ~emotion_ok, MSG_emotion)
  IN [passed |-> passed, msgs |-> m3,
      roy_line |-> IF passed THEN ROY_archaeology_pass ELSE ROY_archaeology_fail,
      searches |-> <<"time", "ptr_time", "emotion_2x3x">> \o (IF emotion_2x3x THEN <<>> ELSE <<"emotion_any">>)]

validate_consciousness(req) ==
  LET frees == found(re_search(RE_free, req.code))
      returns_ptr == found(re_search(RE_remember, req.code))
      passed == frees /\ returns_ptr /\ no_errors(req)
      m1 == append_if(<<>>, ~frees, MSG_free)
  IN [passed |-> passed, msgs |-> m1,
      roy_line |-> IF passed THEN ROY_consciousness_pass ELSE ROY_consciousness_fail,
      searches |-> <<"free", "remember">>]

validate_choice(req) ==
  LET chose == re_search(RE_choice, req.code)
      passed == found(chose) /\ no_errors(req)
      m1 == append_if(<<>>, ~passed, MSG_choice)
  IN [passed |-> passed, msgs |-> m1,
      roy_line |-> IF found(chose)
                   THEN (IF choice_group1(chose[1]) = "SAVE_ALL" THEN ROY_save_all ELSE ROY_preserve)
                   ELSE ROY_choose,
      searches |-> <<"choice">>]

\* mutant: the hint is given whenever there is a message
progress_hint_ignoring_passed(passed, msgs) == IF msgs # <<>> THEN Some(msgs[1]) ELSE None

\* hint = msgs[0] if not passed and msgs
progress_hint(passed, msgs) == IF ~passed /\ msgs # <<>> THEN Some(msgs[1]) ELSE None

ValidateResponse(r) ==
  [type |-> "ValidateResponse", passed |-> r.passed, messages |-> r.msgs, roy |-> r.roy_line,
   progress_hint |-> progress_hint(r.passed, r.msgs)]

HTTPException(code, detail) == [type |-> "HTTPException", status_code |-> code, detail |-> detail]

\* return ValidateResponse(passed=passed, messages=msgs, roy=roy_line, progress_hint=hint)
respond(r) == [resp |-> ValidateResponse(r), searches |-> r.searches]

\* mutant: an unrecognized phase id falls back to the first phase
unknown_phase_defaults_to_reality(req) == respond(validate_reality(req))

\* else: raise HTTPException(status_code=400, detail="Unknown phase")
unknown_phase(req) == [resp |-> HTTPException(400, "Unknown phase"), searches |-> <<>>]

\* the handler's dispatch on phase_id: the response and the patterns it searched, in order
validate_handler(req) ==
  LET pid == req.phase_id
  IN IF pid = "reality" THEN respond(validate_reality(req))
     ELSE IF pid = "archaeology" THEN respond(validate_archaeology(req))
     ELSE IF pid = "consciousness" THEN respond(validate_consciousness(req))
     ELSE IF pid = "choice" THEN respond(validate_choice(req))
     ELSE unknown_phase(req)

(* ---------------- inputs of validate ---------------- *)
PhaseIds == {"reality", "archaeology", "consciousness", "choice", "Reality", ""}

Fragments == {
  <<"g","r","a","v","i","t","y"," ","="," ","9",".","8","1",";">>,
  <<"g","r","a","v","i","t","y","=","9",".","8",";">>,
  <<"f","o","r"," ","(","i","n","t"," ","i"," ","="," ","0",";"," ","i"," ","<"," ","1","0",";"," ","i","+","+",")">>,
  <<"f","o","r","(","i","n","t"," ","i","=","0",";","i","<","=","1","0",";","i","+","+",")">>,
  <<"u","i","n","t","6","4","_","t"," ","t",";">>,
  <<"t","y","p","e","d","e","f"," ","v","o","i","d"," ","*","t","i","m","e","s","t","a","m","p","_","t",";">>,
  <<"c","h","a","r"," ","e","m","o","t","i","o","n","[","3","2","]",";">>,
  <<"f","r","e","e","("," ","p"," ",")"," ",";">>,
  <<"v","o","i","d","*"," ","r","e","m","e","m","b","e","r","(">>,
  <<"r","e","t","u","r","n"," ","S","A","V","E","_","A","L","L",";">>,
  <<"r","e","t","u","r","n","\t","P","R","E","S","E","R","V","E","_","C","O","N","S","C","I","O","U","S","N","E","S","S"," ",";">>,
  <<"r","e","t","u","r","n"," ","0",";">> }

RECURSIVE CodesOf(_)
CodesOf(n) == IF n = 0 THEN {<<>>} ELSE CodesOf(n - 1) \cup {c \o f : c \in CodesOf(n - 1), f \in Fragments}
Codes == CodesOf(MaxFrags)

StderrInputs == {None, Some(<<>>), Some(<<"m","a","i","n",".","c",":","3",":","1",":"," ","e","r","r","o","r",":"," ","e","x","p","e","c","t","e","d"," ","'",";","'">>)}

validate ==
  /\ idle
  /\ \E pid \in PhaseIds, code \in Codes, cs \in StderrInputs :
    LET req == [phase_id |-> pid, code |-> code, compile_stderr |-> cs, run_stdout |-> None]
        out == validate_handler(req)
    IN /\ vreq' = Some(req)
       /\ vresp' = Some(out.resp)
       /\ searches' = out.searches
       /\ UNCHANGED cvars

(* ---------------- properties of compile_and_run ---------------- *)
compile_timed_out == Len(procs) >= 1 /\ procs[1].outcome.timed_out
compiler_exited(rcs) == Len(procs) >= 1 /\ ~procs[1].outcome.timed_out /\ procs[1].outcome.returncode \in rcs
run_invoked == Len(procs) >= 2
run_timed_out == run_invoked /\ procs[2].outcome.timed_out

\* C1: a compile timeout and a run timeout never both occur in one request, and
\* whichever of the two occurs, the returned result has timed_out = true.
C1_TimeoutsExclusiveAndFlagged ==
  cresp # None =>
    /\ ~(compile_timed_out /\ run_timed_out)
    /\ (compile_timed_out \/ run_timed_out) => cresp[1].timed_out

\* C2: the binary is executed only after the compiler completed in time with exit
\* status 0: after a compiler timeout or a nonzero exit the execution step is not
\* invoked and the result has run_attempted = false, run_success = false and no
\* exit code; after a compiler exit 0 the result has run_attempted = true.
C2_RunOnlyAfterSuccessfulCompile ==
  cresp # None =>
    /\ run_invoked => compiler_exited({0})
    /\ (compile_timed_out \/ compiler_exited(Int \ {0})) =>
         ~run_invoked /\ ~cresp[1].run_attempted /\ ~cresp[1].run_success /\ cresp[1].exit_code = None
    /\ compiler_exited({0}) => cresp[1].run_attempted /\ run_invoked

C2_Witness ==
  /\ cresp # None /\ compiler_exited({1}) /\ ~run_invoked
  /\ ~cresp[1].run_attempted /\ cresp[1].exit_code = None

\* C3: a run timeout gives run_stdout empty, run_stderr exactly "Execution timed
\* out", no exit code, timed_out = true, run_success = false, compile_success =
\* true and run_attempted = true; and only a run timeout gives timed_out = true
\* together with run_attempted = true.
C3_RunTimeoutResult ==
  cresp # None =>
    /\ run_timed_out =>
         /\ cresp[1].run_stdout = <<>>
         /\ cresp[1].run_stderr = <<"E","x","e","c","u","t","i","o","n"," ","t","i","m","e","d"," ","o","u","t">>
         /\ cresp[1].exit_code = None
         /\ cresp[1].timed_out
         /\ ~cresp[1].run_success
         /\ cresp[1].compile_success
         /\ cresp[1].run_attempted
    /\ (cresp[1].timed_out /\ cresp[1].run_attempted) => run_timed_out

C3_Witness ==
  /\ cresp # None /\ run_timed_out /\ procs[2].timeout = RUN_TIMEOUT
  /\ cresp[1].timed_out /\ cresp[1].run_stderr = <<"E","x","e","c","u","t","i","o","n"," ","t","i","m","e","d"," ","o","u","t">>
  /\ cresp[1].diagnostics # <<>>

\* C4: in every returned result, diagnostics is the diagnostic parser applied to
\* that result's compile_stderr; a compile timeout has empty diagnostics.
C4_DiagnosticsFromCompileStderr ==
  cresp # None =>
    /\ cresp[1].diagnostics = parse_diagnostics(cresp[1].compile_stderr)
    /\ compile_timed_out => cresp[1].diagnostics = <<>>

\* a failed compile whose stderr holds two diagnostic lines among other lines
C4_Witness ==
  /\ cresp # None /\ compiler_exited({1})
  /\ cresp[1].diagnostics =
       << [file |-> <<"m","a","i","n",".","c">>, line |-> 3, column |-> 1, kind |-> <<"e","r","r","o","r">>, message |-> <<"e","x","p","e","c","t","e","d"," ","'",";","'">>],
          [file |-> <<"C",":","/","w","/","m","a","i","n",".","c">>, line |-> 7, column |-> 12, kind |-> <<"e","r","r","o","r">>, message |-> <<"b","a","d">>] >>

\* C10: the binary's argument vector after the program path is exactly the
\* request's args, element for element.
C10_ArgsPassedVerbatim ==
  (cresp # None /\ run_invoked) => Tail(procs[2].cmd) = creq[1].args

(* ---------------- properties of validate ---------------- *)
KnownPhases == {"reality", "archaeology", "consciousness", "choice"}
is_result == vresp # None /\ vresp[1].type = "ValidateResponse"
stderr_empty_or_absent == vreq[1].compile_stderr = None \/ vreq[1].compile_stderr = Some(<<>>)
holds(pat) == re_search(pat, vreq[1].code) # None

\* C5: a phase id outside the four known ids is rejected with a client error,
\* never answered with a ValidateResult; no pattern is searched.
C5_UnknownPhaseRejected ==
  (vreq # None /\ vreq[1].phase_id \notin KnownPhases) =>
    /\ vresp[1].type = "HTTPException"
    /\ vresp[1].status_code = 400
    /\ searches = <<>>

C5_Witness ==
  /\ vreq # None /\ vreq[1].phase_id = "Reality"
  /\ holds(RE_gravity) /\ holds(RE_loop) /\ stderr_empty_or_absent
  /\ vresp[1].type = "HTTPException"

\* C6: passed is true exactly when every gating predicate of the phase matches
\* the source and compile_stderr is empty or absent; the emotion-buffer
\* predicate of archaeology does not gate.
C6_PassedIffGatingPredicates ==
  is_result =>
    LET pid == vreq[1].phase_id
        gate == IF pid = "reality" THEN holds(RE_gravity) /\ holds(RE_loop)
                ELSE IF pid = "archaeology" THEN holds(RE_time) /\ ~holds(RE_ptr_time)
                ELSE IF pid = "consciousness" THEN holds(RE_free) /\ holds(RE_remember)
                ELSE holds(RE_choice)
    IN vresp[1].passed <=> (gate /\ stderr_empty_or_absent)

\* archaeology passes although the emotion-buffer predicate fails
C6_Witness ==
  /\ is_result /\ vreq[1].phase_id = "archaeology" /\ vresp[1].passed
  /\ ~holds(RE_emotion_any) /\ vreq[1].compile_stderr = Some(<<>>)

\* the messages of the failing ones among preds (pairs <<holds, message>>), in order
RECURSIVE failing_messages(_)
failing_messages(preds) ==
  IF preds = <<>> THEN <<>>
  ELSE (IF Head(preds)[1] THEN <<>> ELSE <<Head(preds)[2]>>) \o failing_messages(Tail(preds))

\* C7: messages holds exactly one message per failing textual predicate of the
\* phase, in declaration order, and none for a predicate that holds.
C7_OneMessagePerFailingPredicate ==
  is_result =>
    LET pid == vreq[1].phase_id
        preds == IF pid = "reality" THEN << <<holds(RE_gravity), MSG_gravity>>, <<holds(RE_loop), MSG_loop>> >>
                 ELSE IF pid = "archaeology" THEN << <<holds(RE_time), MSG_time>>, <<~holds(RE_ptr_time), MSG_ptr_time>>, <<holds(RE_emotion_2x3x) \/ holds(RE_emotion_any), MSG_emotion>> >>
                 ELSE IF pid = "consciousness" THEN << <<holds(RE_free), MSG_free>>, <<holds(RE_remember), "remember">> >>
                 ELSE << <<holds(RE_choice), MSG_choice>> >>
        expected == failing_messages(preds)
    IN /\ Len(vresp[1].messages) = Len(expected)
       /\ \A k \in 1..Len(expected) : expected[k] = "remember" \/ vresp[1].messages[k] = expected[k]

\* C8: progress_hint is the first message exactly when passed is false and
\* messages is non-empty; otherwise it is absent.
C8_ProgressHint ==
  is_result =>
    IF ~vresp[1].passed /\ vresp[1].messages # <<>>
    THEN vresp[1].progress_hint = Some(vresp[1].messages[1])
    ELSE vresp[1].progress_hint = None

\* passed with a non-empty advisory message list: no hint
C8_Witness ==
  /\ is_result /\ vresp[1].passed /\ vresp[1].messages = <<MSG_emotion>>
  /\ vresp[1].progress_hint = None

\* C9: in phase choice the narrative follows the matched return token alone,
\* whatever compile_stderr is; with no token matched it is the "Choose"
\* narrative, which occurs only in results with passed = false.
C9_ChoiceNarrative ==
  is_result =>
    /\ vreq[1].phase_id = "choice" =>
         LET m == re_search(RE_choice, vreq[1].code)
         IN vresp[1].roy = (IF m = None THEN ROY_choose ELSE IF m[1].alt = 1 THEN ROY_save_all ELSE ROY_preserve)
    /\ vresp[1].roy = ROY_choose => ~vresp[1].passed

\* PRESERVE_CONSCIOUSNESS is returned first, SAVE_ALL later, and the compiler complained
C9_Witness ==
  /\ is_result /\ vreq[1].phase_id = "choice" /\ ~stderr_empty_or_absent
  /\ re_search(RE_choice, vreq[1].code) # None /\ re_search(RE_choice, vreq[1].code)[1].start = 1
  /\ re_search(<<RE_choice[1]>>, vreq[1].code) # None
  /\ vresp[1].roy = ROY_preserve /\ ~vresp[1].passed

(* ---------------- specifications ---------------- *)
Init ==
  /\ creq = None /\ cresp = None /\ procs = <<>> /\ fs = <<>>
  /\ vreq = None /\ vresp = None /\ searches = <<>>

\* the response has been returned; the worker is ready for the next request
next_request ==
  /\ ~idle
  /\ creq' = None /\ cresp' = None /\ procs' = <<>> /\ fs' = <<>>
  /\ vreq' = None /\ vresp' = None /\ searches' = <<>>

NextCompile == compile_and_run \/ next_request
SpecCompile == Init /\ [][NextCompile]_vars

NextValidate == validate \/ next_request
SpecValidate == Init /\ [][NextValidate]_vars

====
